---- MODULE Spec2Model ----
(***************************************************************************)
(* Model of beancount/ingest/regression.py: the regression-test helper     *)
(* that walks a directory of sample files, generates one test per sample   *)
(* file and overridden importer method (compare_sample_files), and runs    *)
(* each test against a sibling fixture file (ImportFileTestCase).          *)
(*                                                                         *)
(* Text (file names and file contents) is a sequence of one-character      *)
(* strings.  The file system is a function from the names of the files     *)
(* that exist, in one directory, to their contents.  Paths follow the      *)
(* POSIX conventions (os.sep = "/").                                       *)
(***************************************************************************)
EXTENDS Integers, Sequences, FiniteSets, TLC

\* ------------------------------------------------------------------------
\* Bounds of the model.

\* How many times compare_sample_files() is called and consumed.
MaxRuns == 2

\* How many files besides the module the directory of the scan scenarios
\* holds at most.
MaxFiles == 3

\* How many tests the runner runs in the scan scenarios.
MaxChecks == 3

\* ------------------------------------------------------------------------
\* Text helpers.

Min(S) == CHOOSE x \in S : \A y \in S : x <= y
Max(S) == CHOOSE x \in S : \A y \in S : x >= y

\* The characters str.strip() removes.
Whitespace == {" ", "\n"}

\* str.strip(), without the trimming: the text as it is.
strip_nothing(s) == s

\* str.strip(): the text without its leading and trailing whitespace.
strip(s) ==
    LET keep == {i \in 1..Len(s) : s[i] \notin Whitespace}
    IN  IF keep = {} THEN <<>> ELSE SubSeq(s, Min(keep), Max(keep))

\* print(x, file=f): the text and a newline.
print_line(s) == s \o <<"\n">>

DigitChars == <<"0", "1", "2", "3", "4", "5", "6", "7", "8", "9">>

IsDigit(c) == \E d \in 1..10 : DigitChars[d] = c

DigitValue(c) == (CHOOSE d \in 1..10 : DigitChars[d] = c) - 1

\* The decimal digits of n, without padding.
RECURSIVE Decimal(_)
Decimal(n) ==
    IF n < 10 THEN <<DigitChars[n + 1]>>
    ELSE Decimal(n \div 10) \o <<DigitChars[(n % 10) + 1]>>

\* The decimal digits of n, zero-padded to the width w.
RECURSIVE ZeroPad(_, _)
ZeroPad(n, w) ==
    IF Len(Decimal(n)) >= w THEN Decimal(n) ELSE <<"0">> \o ZeroPad(n, w - 1)

\* The number a text of digits denotes.
RECURSIVE Number(_)
Number(s) ==
    IF s = <<>> THEN 0
    ELSE 10 * Number(SubSeq(s, 1, Len(s) - 1)) + DigitValue(s[Len(s)])

\* ------------------------------------------------------------------------
\* Dates.  A value of the importer's file_date() is a datetime.date or its
\* subclass datetime.datetime; the two never compare equal.

Date(y, m, d) == [year |-> y, month |-> m, day |-> d, cls |-> "date"]

DateTime(y, m, d) == [year |-> y, month |-> m, day |-> d, cls |-> "datetime"]

NoDate == [year |-> 0, month |-> 0, day |-> 0, cls |-> "none"]

IsLeap(y) == (y % 4 = 0 /\ y % 100 # 0) \/ y % 400 = 0

DaysInMonth(y, m) ==
    IF m = 2 THEN (IF IsLeap(y) THEN 29 ELSE 28)
    ELSE IF m \in {4, 6, 9, 11} THEN 30 ELSE 31

\* date.strftime('%Y-%m-%d'): the C library formats %Y; some pad a year
\* below 1000 to four digits and some do not, so the result is one of a set.
strftime(date) ==
    LET rest == <<"-">> \o ZeroPad(date.month, 2) \o <<"-">> \o ZeroPad(date.day, 2)
    IN  {ZeroPad(date.year, 4) \o rest, Decimal(date.year) \o rest}

\* The ways datetime.strptime(s, '%Y-%m-%d') can split s: four digits of
\* year, one or two of month, one or two of day, nothing else.
DateSplits(s) ==
    {w \in (1..2) \X (1..2) :
        /\ Len(s) = 6 + w[1] + w[2]
        /\ \A i \in 1..4 : IsDigit(s[i])
        /\ s[5] = "-"
        /\ \A i \in 6..(5 + w[1]) : IsDigit(s[i])
        /\ s[6 + w[1]] = "-"
        /\ \A i \in (7 + w[1])..Len(s) : IsDigit(s[i])}

DateOfSplit(s, w) ==
    Date(Number(SubSeq(s, 1, 4)),
         Number(SubSeq(s, 6, 5 + w[1])),
         Number(SubSeq(s, 7 + w[1], Len(s))))

\* datetime.datetime.strptime(s, '%Y-%m-%d').date(): the date, or NoDate
\* where strptime raises ValueError.
strptime(s) ==
    LET good == {w \in DateSplits(s) :
                    LET d == DateOfSplit(s, w)
                    IN  /\ d.year >= 1
                        /\ d.month \in 1..12
                        /\ d.day \in 1..DaysInMonth(d.year, d.month)}
    IN  IF good = {} THEN NoDate ELSE DateOfSplit(s, CHOOSE w \in good : TRUE)

\* ------------------------------------------------------------------------
\* The file system and the importer under test.

\* The three importer methods a test is generated for, in the order of the
\* loop of compare_sample_files.
Names == <<"extract", "file_date", "file_name">>

NameSet == {Names[j] : j \in 1..Len(Names)}

\* The suffix '.extract', '.file_date' or '.file_name' of a fixture file.
Suffix(name) ==
    IF name = "extract" THEN <<".", "e", "x", "t", "r", "a", "c", "t">>
    ELSE IF name = "file_date"
         THEN <<".", "f", "i", "l", "e", "_", "d", "a", "t", "e">>
         ELSE <<".", "f", "i", "l", "e", "_", "n", "a", "m", "e">>

\* '{}.extract'.format(filename) and its two siblings.
expect_filename_of(filename, name) == filename \o Suffix(name)

\* path.exists(p)
path_exists(fs, p) == p \in DOMAIN fs

\* path.getsize(p), of a file that exists
path_getsize(fs, p) == Len(fs[p])

\* open(p, 'w').write(text) where the text never reaches the disk.
write_file_lost(fs, p, text) == fs

\* open(p, 'w').write(text): the file is created or replaced.
write_file(fs, p, text) ==
    [q \in (DOMAIN fs) \cup {p} |-> IF q = p THEN text ELSE fs[q]]

\* What is at a path: whether a file is there, and its text.
Stat(fs, p) ==
    IF p \in DOMAIN fs THEN [exists |-> TRUE, text |-> fs[p]]
    ELSE [exists |-> FALSE, text |-> <<>>]

\* posixpath.isabs(s)
path_isabs(s) == Len(s) > 0 /\ s[1] = "/"

\* assertNotRegex(s, os.sep) left out: no name has a separator.
contains_sep_never(s) == FALSE

\* re.search(os.sep, s), what assertNotRegex(s, os.sep) looks for
contains_sep(s) == \E i \in 1..Len(s) : s[i] = "/"

\* What a call of an importer method does: it returns a value, returns None,
\* raises ToolNotInstalled or raises another exception.
Returns(text) == [kind |-> "returns", text |-> text, date |-> NoDate]

ReturnsDate(date) == [kind |-> "returns", text |-> <<>>, date |-> date]

NoValue(kind) == [kind |-> kind, text |-> <<>>, date |-> NoDate]

\* The outcome of a test method's body, and the file system it leaves.
Outcome(o, fs) == [outcome |-> o, files |-> fs]

\* self.assertEqual(a, b), as the last statement of a test
assertEqual(a, b) == IF a = b THEN "ok" ELSE "AssertionError"

\* ------------------------------------------------------------------------
\* ImportFileTestCase: the three checks.  Each is the set of the outcomes
\* the body can have.

\* test_expect_extract that rewrites the fixture when the texts differ.
test_expect_extract_rewrites(imp, fs, filename) ==
    LET r == imp.extract
        string == r.text
        expect_filename == expect_filename_of(filename, "extract")
    IN  IF r.kind # "returns" THEN {Outcome(r.kind, fs)}
        ELSE IF path_exists(fs, expect_filename)
        THEN {Outcome(assertEqual(strip(fs[expect_filename]), strip(string)),
                      write_file(fs, expect_filename, string))}
        ELSE {Outcome("SkipTest", write_file(fs, expect_filename, string))}

\* The body of test_expect_extract.
test_expect_extract_body(imp, fs, filename) ==
    LET r == imp.extract
        string == r.text
        expect_filename == expect_filename_of(filename, "extract")
    IN  IF r.kind # "returns" THEN {Outcome(r.kind, fs)}
        ELSE IF path_exists(fs, expect_filename)
        THEN {Outcome(assertEqual(strip(fs[expect_filename]), strip(string)), fs)}
        ELSE {Outcome("SkipTest", write_file(fs, expect_filename, string))}

\* The body of test_expect_file_date where no date is a skip.
test_expect_file_date_none_skips(imp, fs, filename) ==
    LET r == imp.file_date
        date == r.date
        expect_filename == expect_filename_of(filename, "file_date")
    IN  IF r.kind \in {"ToolNotInstalled", "Exception"} THEN {Outcome(r.kind, fs)}
        ELSE IF r.kind = "None" THEN {Outcome("SkipTest", fs)}
        ELSE IF path_exists(fs, expect_filename) /\ path_getsize(fs, expect_filename) > 0
        THEN LET expect_date == strptime(strip(fs[expect_filename]))
             IN  IF expect_date = NoDate THEN {Outcome("Exception", fs)}
                 ELSE {Outcome(assertEqual(expect_date, date), fs)}
        ELSE {Outcome("SkipTest", write_file(fs, expect_filename, print_line(t))) :
                 t \in strftime(date)}

\* The body of test_expect_file_date that writes the date to the fixture of
\* the file name.
test_expect_file_date_wrong_file(imp, fs, filename) ==
    LET r == imp.file_date
        date == r.date
        expect_filename == expect_filename_of(filename, "file_date")
    IN  IF r.kind \in {"ToolNotInstalled", "Exception"} THEN {Outcome(r.kind, fs)}
        ELSE IF r.kind = "None" THEN {Outcome("AssertionError", fs)}
        ELSE IF path_exists(fs, expect_filename) /\ path_getsize(fs, expect_filename) > 0
        THEN LET expect_date == strptime(strip(fs[expect_filename]))
             IN  IF expect_date = NoDate THEN {Outcome("Exception", fs)}
                 ELSE {Outcome(assertEqual(expect_date, date),
                               write_file(fs, expect_filename_of(filename, "file_name"),
                                          print_line(t))) : t \in strftime(date)}
        ELSE {Outcome("SkipTest", write_file(fs, expect_filename, print_line(t))) :
                 t \in strftime(date)}

\* The body of test_expect_file_date.
test_expect_file_date_body(imp, fs, filename) ==
    LET r == imp.file_date
        date == r.date
        expect_filename == expect_filename_of(filename, "file_date")
    IN  IF r.kind \in {"ToolNotInstalled", "Exception"} THEN {Outcome(r.kind, fs)}
        ELSE IF r.kind = "None" THEN {Outcome("AssertionError", fs)}
        ELSE IF path_exists(fs, expect_filename) /\ path_getsize(fs, expect_filename) > 0
        THEN LET expect_date == strptime(strip(fs[expect_filename]))
             IN  IF expect_date = NoDate THEN {Outcome("Exception", fs)}
                 ELSE {Outcome(assertEqual(expect_date, date), fs)}
        ELSE {Outcome("SkipTest", write_file(fs, expect_filename, print_line(t))) :
                 t \in strftime(date)}

\* The body of test_expect_file_name that rewrites the fixture when the
\* names differ.
test_expect_file_name_rewrites(imp, fs, filename) ==
    LET r == imp.file_name
        generated_basename == r.text
        expect_filename == expect_filename_of(filename, "file_name")
    IN  IF r.kind \in {"ToolNotInstalled", "Exception"} THEN {Outcome(r.kind, fs)}
        ELSE IF r.kind = "None" THEN {Outcome("AssertionError", fs)}
        ELSE IF path_isabs(generated_basename) THEN {Outcome("AssertionError", fs)}
        ELSE IF contains_sep(generated_basename) THEN {Outcome("AssertionError", fs)}
        ELSE IF path_exists(fs, expect_filename) /\ path_getsize(fs, expect_filename) > 0
        THEN {Outcome(assertEqual(strip(fs[expect_filename]), generated_basename),
                      write_file(fs, expect_filename, print_line(generated_basename)))}
        ELSE {Outcome("SkipTest",
                      write_file(fs, expect_filename, print_line(generated_basename)))}

\* The body of test_expect_file_name.
test_expect_file_name_body(imp, fs, filename) ==
    LET r == imp.file_name
        generated_basename == r.text
        expect_filename == expect_filename_of(filename, "file_name")
    IN  IF r.kind \in {"ToolNotInstalled", "Exception"} THEN {Outcome(r.kind, fs)}
        ELSE IF r.kind = "None" THEN {Outcome("AssertionError", fs)}
        ELSE IF path_isabs(generated_basename) THEN {Outcome("AssertionError", fs)}
        ELSE IF contains_sep(generated_basename) THEN {Outcome("AssertionError", fs)}
        ELSE IF path_exists(fs, expect_filename) /\ path_getsize(fs, expect_filename) > 0
        THEN {Outcome(assertEqual(strip(fs[expect_filename]), generated_basename), fs)}
        ELSE {Outcome("SkipTest",
                      write_file(fs, expect_filename, print_line(generated_basename)))}

\* test_utils.skipIfRaises(exc_type): the decorated body, with an exception
\* of that type turned into unittest.SkipTest.
skipIfRaises(exc_type, results) ==
    {IF r.outcome = exc_type THEN Outcome("SkipTest", r.files) ELSE r : r \in results}

\* test_expect_extract without its decorator.
test_expect_extract_not_decorated(imp, fs, filename) ==
    test_expect_extract_body(imp, fs, filename)

test_expect_extract(imp, fs, filename) ==
    skipIfRaises("ToolNotInstalled", test_expect_extract_body(imp, fs, filename))

test_expect_file_date(imp, fs, filename) ==
    skipIfRaises("ToolNotInstalled", test_expect_file_date_body(imp, fs, filename))

test_expect_file_name(imp, fs, filename) ==
    skipIfRaises("ToolNotInstalled", test_expect_file_name_body(imp, fs, filename))

\* getattr(ImportFileTestCase(importer), 'test_expect_{}'.format(name)),
\* called with the file name.
test_method(imp, fs, filename, name) ==
    IF name = "extract" THEN test_expect_extract(imp, fs, filename)
    ELSE IF name = "file_date" THEN test_expect_file_date(imp, fs, filename)
    ELSE test_expect_file_name(imp, fs, filename)

\* What the test runner reports for the outcome of a test method.
Verdict(outcome) ==
    IF outcome = "ok" THEN "passed"
    ELSE IF outcome = "AssertionError" THEN "failed"
    ELSE IF outcome = "SkipTest" THEN "skipped"
    ELSE "error"

\* ------------------------------------------------------------------------
\* find_input_files and compare_sample_files.

\* The extensions of the regular expression of find_input_files.
Extensions ==
    {Tail(Suffix(name)) : name \in NameSet} \cup {<<"p", "y">>, <<"p", "y", "c">>}

\* re.match(r'.*\.(extract|file_date|file_name|py|pyc)$', filename): '.'
\* matches no newline, and '$' matches at the end and before a last newline.
re_match(filename) ==
    \E e \in Extensions, nl \in {<<>>, <<"\n">>} :
        LET tail == <<".">> \o e \o nl
            k == Len(filename) - Len(tail)
        IN  /\ k >= 0
            /\ SubSeq(filename, k + 1, Len(filename)) = tail
            /\ \A i \in 1..k : filename[i] # "\n"

\* The directory the files of the model are in, and the module that defines
\* the importer, which is one of them.  A file of the directory is known by
\* its name in it.
Directory == <<"/", "d">>

ModuleFile == <<"t", ".", "p", "y">>

\* The files find_input_files yields for a directory; os.walk yields
\* nothing for a directory that does not exist.
find_input_files(fs, directory) ==
    IF directory = Directory
    THEN {filename \in DOMAIN fs : ~ re_match(filename)}
    ELSE {}

path_join(directory, filename) == directory \o <<"/">> \o filename

\* path.dirname(p), of a path with a separator
path_dirname(p) ==
    LET seps == {i \in 1..Len(p) : p[i] = "/"}
    IN  IF Max(seps) = 1 THEN <<"/">> ELSE SubSeq(p, 1, Max(seps) - 1)

\* path.isfile(p)
path_isfile(fs, p) ==
    \E filename \in DOMAIN fs : p = path_join(Directory, filename)

\* Lines 181-184: the directory compare_sample_files scans, for the argument
\* it is given (<<>> stands for no argument).
resolve_directory(fs, directory) ==
    LET given == IF directory = <<>> THEN path_join(Directory, ModuleFile)
                 ELSE directory
    IN  IF path_isfile(fs, given) THEN path_dirname(given) ELSE given

\* The functions an attribute of the importer can be bound to.
Impls == {"ImporterProtocol", "compat.Importer", "own"}

\* The test of lines 197-198 with the compat.Importer default forgotten.
has_implementation_protocol_only(imp, name) ==
    ~ (imp.func[name] = "ImporterProtocol")

\* Lines 196-198: the importer's method is neither of the two defaults.
has_implementation(imp, name) ==
    ~ (imp.func[name] = "ImporterProtocol" \/ imp.func[name] = "compat.Importer")

\* The methods after the j-th that a test is generated for.
TestedAfter(imp, j) ==
    {i \in (j + 1)..Len(Names) : has_implementation(imp, Names[i])}

\* ------------------------------------------------------------------------
\* The state.

VARIABLES
    files,      \* the directory: the name of each file |-> its text
    importer,   \* the importer under test: what each method is bound to, does
    gen,        \* the generator compare_sample_files returned last
    nyielded,   \* how many triples that generator has yielded
    pending,    \* the tests yielded and not yet run
    log,        \* <<run, filename, name>> |-> the verdict of the test run
    run,        \* how many times compare_sample_files has been called
    budget,     \* how many tests the runner still runs
    samples0    \* the sample files of the directory at the start

vars == <<files, importer, gen, nyielded, pending, log, run, budget, samples0>>

NoGenerator ==
    [state |-> "none", directory |-> <<>>, todo |-> {}, cur |-> <<>>, j |-> 0,
     nfiles |-> 0]

\* ------------------------------------------------------------------------
\* The scenarios the model starts from.

Absent == [exists |-> FALSE, text |-> <<>>]

Present(text) == [exists |-> TRUE, text |-> text]

Sample == <<"a">>

Iso(date) == CHOOSE t \in strftime(date) : TRUE

\* What the methods of the importer can return or raise, and the states of
\* the fixtures.
ExtractValues == {Returns(<<"x", "\n">>), Returns(<<>>)}

ExtractFixtures ==
    {Absent, Present(<<>>), Present(<<"x">>), Present(<<"y", "\n">>)}

DateValues ==
    {ReturnsDate(Date(2024, 1, 15)), ReturnsDate(Date(999, 1, 15)),
     ReturnsDate(DateTime(2024, 1, 15))}

DateFixtures ==
    {Absent, Present(<<>>), Present(print_line(Iso(Date(2024, 1, 15)))),
     Present(print_line(Iso(Date(2024, 1, 16)))), Present(<<"x", "\n">>)}

NameValues ==
    {Returns(<<"n">>), Returns(<<"n", " ">>), Returns(<<"/", "n">>),
     Returns(<<"d", "/", "n">>)}

NameFixtures ==
    {Absent, Present(<<>>), Present(<<"n", "\n">>), Present(<<"m", "\n">>)}

Raises == {NoValue("ToolNotInstalled"), NoValue("Exception")}

\* The fixture states a method that returns no value is tried with: absent,
\* empty, and one that holds a text.
AbsentEmptyOrText(fixtures) ==
    {Absent, Present(<<>>)}
    \cup {CHOOSE x \in fixtures : x.exists /\ x.text # <<>>}

\* What one method of the importer is bound to and does, and the fixture of
\* its test.  A method left to a default returns None and has no fixture.
Setups(values, others, fixtures) ==
    {[func |-> f, out |-> NoValue("None"), fixture |-> Absent] :
        f \in Impls \ {"own"}}
    \cup {[func |-> "own", out |-> o, fixture |-> x] : o \in values, x \in fixtures}
    \cup {[func |-> "own", out |-> o, fixture |-> x] :
            o \in others, x \in AbsentEmptyOrText(fixtures)}

\* A directory with the module, the sample files and the fixtures given.
MakeFiles(samples, fixture) ==
    LET fixtures == {sn \in samples \X NameSet : fixture[sn].exists}
        paths == {expect_filename_of(sn[1], sn[2]) : sn \in fixtures}
    IN  [p \in {ModuleFile} \cup samples \cup paths |->
            IF p \in paths
            THEN fixture[CHOOSE sn \in fixtures :
                             expect_filename_of(sn[1], sn[2]) = p].text
            ELSE <<>>]

Idle ==
    /\ gen = NoGenerator
    /\ nyielded = 0
    /\ pending = {}
    /\ log = <<>>
    /\ run = 0
    /\ samples0 = find_input_files(files, Directory)

\* One sample file, any importer, any state of its three fixtures.
Init ==
    /\ \E e \in Setups(ExtractValues, Raises, ExtractFixtures),
          d \in Setups(DateValues, Raises \cup {NoValue("None")}, DateFixtures),
          n \in Setups(NameValues, Raises \cup {NoValue("None")}, NameFixtures) :
        /\ importer =
              [func |-> [name \in NameSet |->
                            IF name = "extract" THEN e.func
                            ELSE IF name = "file_date" THEN d.func ELSE n.func],
               extract |-> e.out, file_date |-> d.out, file_name |-> n.out]
        /\ files = MakeFiles({Sample},
              [sn \in {Sample} \X NameSet |->
                  IF sn[2] = "extract" THEN e.fixture
                  ELSE IF sn[2] = "file_date" THEN d.fixture ELSE n.fixture])
    /\ budget = Len(Names) * MaxRuns
    /\ Idle

\* The file names of the scan scenarios: sample files, a fixture, a compiled
\* module, and a sample file with a newline in its name.
CandidateNames ==
    {<<"a">>, <<"b">>, expect_filename_of(<<"a">>, "extract"),
     expect_filename_of(<<"b">>, "file_name"), <<"b", ".", "p", "y", "c">>,
     <<"a", "\n", "b">>}

\* Up to MaxFiles files of any names, empty, and an importer that overrides
\* any of the three methods and returns a value from each.
InitScan ==
    /\ \E names \in SUBSET CandidateNames :
        /\ Cardinality(names) \in 1..MaxFiles
        /\ files = [p \in names \cup {ModuleFile} |-> <<>>]
    /\ \E func \in [NameSet -> Impls] :
        importer = [func |-> func,
                    extract |-> Returns(<<"x", "\n">>),
                    file_date |-> ReturnsDate(Date(2024, 1, 15)),
                    file_name |-> Returns(<<"n">>)]
    /\ budget = MaxChecks
    /\ Idle

\* ------------------------------------------------------------------------
\* The operations.

\* compare_sample_files(importer, directory) is called: a generator, whose
\* body has not started.
compare_sample_files(directory) ==
    /\ gen.state \in {"none", "exhausted"}
    /\ pending = {}
    /\ run < MaxRuns
    /\ run' = run + 1
    /\ gen' = [NoGenerator EXCEPT !.state = "created", !.directory = directory]
    /\ nyielded' = 0
    /\ UNCHANGED <<files, importer, pending, log, budget, samples0>>

\* The generator yields the test of a file and a method.
Yield(g, filename, j) ==
    /\ gen' = [g EXCEPT !.state = "suspended", !.cur = filename, !.j = j]
    /\ nyielded' = nyielded + 1
    /\ pending' = pending \cup {[filename |-> filename, name |-> Names[j]]}

\* The generator runs from where it is to its next yield, or to its end.
Resume(g) ==
    IF g.cur # <<>> /\ TestedAfter(importer, g.j) # {}
    THEN Yield(g, g.cur, Min(TestedAfter(importer, g.j)))
    ELSE IF g.todo # {} /\ TestedAfter(importer, 0) # {}
    THEN \E filename \in g.todo :
            Yield([g EXCEPT !.todo = g.todo \ {filename}], filename,
                  Min(TestedAfter(importer, 0)))
    ELSE /\ gen' = [g EXCEPT !.state = "exhausted", !.todo = {}, !.cur = <<>>,
                             !.j = 0]
         /\ UNCHANGED <<nyielded, pending>>

\* next(generator): the first call resolves the directory and lists it.
GeneratorNext ==
    /\ gen.state \in {"created", "suspended"}
    /\ IF gen.state = "created"
       THEN LET directory == resolve_directory(files, gen.directory)
                listing == find_input_files(files, directory)
            IN  Resume([gen EXCEPT !.directory = directory, !.todo = listing,
                                   !.nfiles = Cardinality(listing)])
       ELSE Resume(gen)
    /\ UNCHANGED <<files, importer, log, run, budget, samples0>>

\* The runner runs a test the generator has yielded.
RunTest(t) ==
    /\ budget > 0
    /\ \E r \in test_method(importer, files, t.filename, t.name) :
        LET p == expect_filename_of(t.filename, t.name)
        IN  /\ files' = r.files
            /\ log' = (<<run, t.filename, t.name>> :>
                          [verdict |-> Verdict(r.outcome),
                           before |-> Stat(files, p),
                           after |-> Stat(r.files, p)]) @@ log
    /\ pending' = pending \ {t}
    /\ budget' = budget - 1
    /\ UNCHANGED <<importer, gen, nyielded, run, samples0>>

\* The arguments compare_sample_files is called with: none, the directory, a
\* file of the directory.
Arguments ==
    {<<>>, Directory, path_join(Directory, ModuleFile)}

Next ==
    \/ \E directory \in Arguments : compare_sample_files(directory)
    \/ GeneratorNext
    \/ \E t \in pending : RunTest(t)

Spec == Init /\ [][Next]_vars

SpecScan == InitScan /\ [][Next]_vars

\* ------------------------------------------------------------------------
\* What the claims are stated with.

\* The tests that have run, and what a run of compare_sample_files ran.
Ran == DOMAIN log

RanIn(r) == {k \in Ran : k[1] = r}

\* What the importer's method of that name does.
Result(name) == importer[name]

HasSeparator(text) == \E i \in 1..Len(text) : text[i] = "/"

HasOuterWhitespace(text) ==
    text # <<>> /\ (text[1] \in {" ", "\n"} \/ text[Len(text)] \in {" ", "\n"})

\* The method returns a value its check accepts: some value, and for the
\* file name one without a separator.
Usable(name) ==
    /\ Result(name).kind = "returns"
    /\ name = "file_name" => ~ HasSeparator(Result(name).text)

\* The importer overrides the three methods.
OverridesAll == \A name \in NameSet : importer.func[name] = "own"

\* The first run found no fixture of the sample file, and ran its three tests.
FirstRunWithoutFixtures ==
    \A name \in NameSet :
        /\ <<1, Sample, name>> \in Ran
        /\ ~ log[<<1, Sample, name>>].before.exists

\* The first run skipped its three tests and left the three fixtures, and
\* every test of the second run has passed.
SkippedThenPassed ==
    /\ \A name \in NameSet :
        /\ log[<<1, Sample, name>>].verdict = "skipped"
        /\ log[<<1, Sample, name>>].after.exists
    /\ \A name \in NameSet :
        <<2, Sample, name>> \in Ran => log[<<2, Sample, name>>].verdict = "passed"

\* The test the runner has just run, in a step that ran one.
NewKey == CHOOSE k \in DOMAIN log' : k \notin DOMAIN log

\* The paths whose file a step created, changed or removed.
Touched ==
    {p \in (DOMAIN files) \cup (DOMAIN files') : Stat(files, p) # Stat(files', p)}

\* ------------------------------------------------------------------------
\* C1

\* C1 as stated: every check that finds its fixture absent creates it and is
\* skipped.
C1_AbsentAlwaysCreated ==
    \A k \in Ran :
        ~ log[k].before.exists =>
            log[k].verdict = "skipped" /\ log[k].after.exists

\* C1, amended: a check that finds its fixture absent, and whose importer
\* method returns a value (for the file name, one without a separator),
\* creates the fixture and is skipped.
C1_AbsentCreatedAndSkipped ==
    \A k \in Ran :
        (~ log[k].before.exists /\ Usable(k[3])) =>
            log[k].verdict = "skipped" /\ log[k].after.exists

C1_Witness ==
    \A name \in NameSet :
        /\ <<1, Sample, name>> \in Ran
        /\ ~ log[<<1, Sample, name>>].before.exists
        /\ Usable(name)
        /\ log[<<1, Sample, name>>].verdict = "skipped"
        /\ log[<<1, Sample, name>>].after.exists

\* ------------------------------------------------------------------------
\* C2

\* C2 as stated: with one sample file, no fixtures and an importer that
\* overrides the three methods, the first run is three skips that leave the
\* three fixtures and the second run is three passes.
C2_BootstrapThenPass ==
    (OverridesAll /\ FirstRunWithoutFixtures) => SkippedThenPassed

\* The three methods return values the fixtures give back: an extract, a
\* datetime.date (no datetime) of a four-digit year, a file name with no
\* separator and no whitespace at either end.
ReturnsRecordableValues ==
    /\ \A name \in NameSet : Usable(name)
    /\ Result("file_date").date.cls = "date"
    /\ Result("file_date").date.year >= 1000
    /\ ~ HasOuterWhitespace(Result("file_name").text)

\* C2, amended: the same, for an importer whose three methods return such
\* values.
C2_BootstrapThenPassOfValues ==
    (OverridesAll /\ FirstRunWithoutFixtures /\ ReturnsRecordableValues)
        => SkippedThenPassed

C2_Witness ==
    /\ OverridesAll /\ FirstRunWithoutFixtures /\ ReturnsRecordableValues
    /\ \A name \in NameSet :
        /\ log[<<1, Sample, name>>].verdict = "skipped"
        /\ <<2, Sample, name>> \in Ran
        /\ log[<<2, Sample, name>>].verdict = "passed"

\* ------------------------------------------------------------------------
\* C3

\* C3 as stated: a check that finds its fixture present gives the same
\* verdict when it is run again.
C3_SameVerdictIfPresent ==
    \A k \in Ran :
        LET again == <<k[1] + 1, k[2], k[3]>>
        IN  (again \in Ran /\ log[k].before.exists) =>
                log[again].verdict = log[k].verdict

\* C3, amended: a check that finds its fixture present, and for the date and
\* the file name not empty, gives the same verdict when it is run again.
C3_SameVerdictIfRecorded ==
    \A k \in Ran :
        LET again == <<k[1] + 1, k[2], k[3]>>
        IN  (/\ again \in Ran
             /\ log[k].before.exists
             /\ k[3] # "extract" => log[k].before.text # <<>>) =>
                log[again].verdict = log[k].verdict

C3_Witness ==
    \A name \in NameSet :
        /\ <<1, Sample, name>> \in Ran /\ <<2, Sample, name>> \in Ran
        /\ log[<<1, Sample, name>>].before.exists
        /\ log[<<1, Sample, name>>].before.text # <<>>
        /\ log[<<1, Sample, name>>].verdict = "failed"
        /\ log[<<2, Sample, name>>].verdict = "failed"

\* ------------------------------------------------------------------------
\* C4

\* The names of the methods bound to neither default.
Overridden ==
    {name \in NameSet :
        importer.func[name] \notin {"ImporterProtocol", "compat.Importer"}}

\* The tests the generator of this run has yielded.
TestsOfRun == {<<k[2], k[3]>> : k \in RanIn(run)}
                \cup {<<t.filename, t.name>> : t \in pending}

\* C4: an exhausted generator has yielded as many tests, all different, as
\* there are sample files times overridden methods, and no test is ever
\* yielded for a method that is not overridden.
C4_CountOfTests ==
    /\ \A t \in TestsOfRun : t[2] \in Overridden
    /\ Cardinality(TestsOfRun) = nyielded
    /\ gen.state = "exhausted" =>
        nyielded = gen.nfiles * Cardinality(Overridden)

C4_Witness ==
    /\ gen.state = "exhausted"
    /\ gen.nfiles = 3
    /\ Overridden = {"extract", "file_name"}
    /\ nyielded = 6

\* ------------------------------------------------------------------------
\* C5

C6_NoneFails ==
    \A k \in Ran :
        (k[3] \in {"file_date", "file_name"} /\ Result(k[3]).kind = "None") =>
            log[k].verdict = "failed" /\ log[k].after = log[k].before

C6_Witness ==
    \A name \in {"file_date", "file_name"} :
        /\ Result(name).kind = "None"
        /\ <<1, Sample, name>> \in Ran
        /\ ~ log[<<1, Sample, name>>].before.exists
        /\ log[<<1, Sample, name>>].verdict = "failed"
        /\ ~ log[<<1, Sample, name>>].after.exists

\* ------------------------------------------------------------------------
\* C7

\* C7: a check whose importer method raises ToolNotInstalled is skipped, one
\* whose importer method raises another exception is an error, and both
\* leave the fixture as it was.
C7_ToolNotInstalledSkips ==
    \A k \in Ran :
        /\ Result(k[3]).kind = "ToolNotInstalled" =>
            log[k].verdict = "skipped" /\ log[k].after = log[k].before
        /\ Result(k[3]).kind = "Exception" =>
            log[k].verdict = "error" /\ log[k].after = log[k].before

C7_Witness ==
    /\ Result("extract").kind = "ToolNotInstalled"
    /\ Result("file_date").kind = "Exception"
    /\ Result("file_name").kind = "ToolNotInstalled"
    /\ \A name \in NameSet : <<1, Sample, name>> \in Ran
    /\ log[<<1, Sample, "extract">>].verdict = "skipped"
    /\ log[<<1, Sample, "file_date">>].verdict = "error"
    /\ log[<<1, Sample, "file_name">>].verdict = "skipped"
    /\ \A name \in NameSet : ~ log[<<1, Sample, name>>].after.exists

\* ------------------------------------------------------------------------
\* C8

\* C8 as stated: no step changes or removes a file that exists.
C8_PresentNeverWritten ==
    [][\A p \in DOMAIN files : Stat(files', p) = Stat(files, p)]_vars

\* C8, amended: a step that writes a file is the run of a test, the file is
\* the fixture of that test, and the test found it absent or, for the date
\* and the file name, empty.
C8_WrittenWhenAbsentOrEmpty ==
    [][\A p \in Touched :
          /\ log' # log
          /\ p = expect_filename_of(NewKey[2], NewKey[3])
          /\ p \in DOMAIN files'
          /\ \/ p \notin DOMAIN files
             \/ NewKey[3] # "extract" /\ files[p] = <<>>]_vars

C8_Witness ==
    /\ <<1, Sample, "file_date">> \in Ran
    /\ log[<<1, Sample, "file_date">>].before = Present(<<>>)
    /\ log[<<1, Sample, "file_date">>].after.text # <<>>
    /\ <<1, Sample, "file_name">> \in Ran
    /\ log[<<1, Sample, "file_name">>].before = Present(<<"m", "\n">>)
    /\ log[<<1, Sample, "file_name">>].verdict = "failed"
    /\ log[<<1, Sample, "file_name">>].after = Present(<<"m", "\n">>)

\* ------------------------------------------------------------------------
\* C9

\* The fixture holds a date, and the importer returns another.
DateMismatch(fixture) ==
    /\ Result("file_date").kind = "returns"
    /\ fixture.exists
    /\ strptime(strip(fixture.text)) \notin {NoDate, Result("file_date").date}

\* The directory with the date fixture of a file in another state.
WithDateFixture(fs, filename, fixture) ==
    LET p == expect_filename_of(filename, "file_date")
    IN  IF fixture.exists THEN write_file(fs, p, fixture.text)
        ELSE [q \in (DOMAIN fs) \ {p} |-> fs[q]]

\* The states of the date fixture in which the date check passes.
PassingDateFixtures ==
    {Present(print_line(t)) : t \in strftime(Result("file_date").date)}

\* C9: a date check that finds another date in its fixture fails and
\* changes no file, and the verdict of an extract or file name check is the
\* one it has where the date fixture is absent and where the date check
\* passes.
C9_DateMismatchIsolated ==
    [][log' # log =>
          /\ (NewKey[3] = "file_date" /\ DateMismatch(log'[NewKey].before)) =>
                log'[NewKey].verdict = "failed" /\ files' = files
          /\ NewKey[3] # "file_date" =>
                \A fixture \in {Absent} \cup PassingDateFixtures :
                    log'[NewKey].verdict \in
                        {Verdict(r.outcome) :
                            r \in test_method(importer,
                                     WithDateFixture(files, NewKey[2], fixture),
                                     NewKey[2], NewKey[3])}]_vars

C9_Witness ==
    /\ \A name \in NameSet : <<1, Sample, name>> \in Ran
    /\ DateMismatch(log[<<1, Sample, "file_date">>].before)
    /\ log[<<1, Sample, "file_date">>].verdict = "failed"
    /\ log[<<1, Sample, "file_date">>].after = log[<<1, Sample, "file_date">>].before
    /\ log[<<1, Sample, "extract">>].verdict = "passed"
    /\ log[<<1, Sample, "file_name">>].verdict = "passed"

\* ------------------------------------------------------------------------
\* C10

\* C10: after any tests have run, find_input_files yields the sample files
\* it yielded at the start, and none of their fixtures.
C10_SamplesClosed ==
    /\ find_input_files(files, Directory) = samples0
    /\ \A filename \in samples0, name \in NameSet :
        expect_filename_of(filename, name) \notin find_input_files(files, Directory)

====
